---- MODULE Spec2Model ----
(***************************************************************************)
(* Model of the reboot coordinator of pkg/operator/operator.go: the node   *)
(* store, the five phases of Kontroller.process() split at their store     *)
(* calls (List, UpdateNodeRetry), and the writers the controller shares    *)
(* the node objects with (update-agent, human operator, health gates).     *)
(***************************************************************************)
EXTENDS Integers, Sequences, FiniteSets, TLC

VARIABLES
    order,                    \* the store's node list order (names)
    nodes,                    \* the node objects: labels and annotations
    beforeRebootAnnotations,  \* Kontroller.beforeRebootAnnotations
    afterRebootAnnotations,   \* Kontroller.afterRebootAnnotations
    rebootWindow,             \* Kontroller.rebootWindow (Nil or a periodic)
    now,                      \* time.Now()
    pc,                       \* phase of process() the controller is in
    todo,                     \* nodes the current phase's loop still updates
    passResult,               \* how the last pass of process() returned
    track,                    \* writers wait for the controller to be idle
    snap,                     \* node objects when the current pass started
    streak,                   \* clean passes in a row with no write between
    retry,                    \* one call of k8sutil.UpdateNodeRetry, step by step
    run,                      \* leader election and the start-up of Run
    ensure,                   \* one call of runDaemonsetUpdate, step by step
    attempt                   \* one call of k8sutil.RetryOnError, step by step

vars == <<order, nodes, beforeRebootAnnotations, afterRebootAnnotations,
          rebootWindow, now, pc, todo, passResult, track, snap, streak,
          retry, run, ensure, attempt>>

config == <<order, beforeRebootAnnotations, afterRebootAnnotations,
            rebootWindow, track>>

\* what the passes of process() leave alone
rest == <<retry, run>>

\* what only the agent daemonset and the RetryOnError steps change
side == <<ensure, attempt>>

(***************************************************************************)
(* Bounds and constants                                                    *)
(***************************************************************************)
MaxTime == 2

\* resourceVersions other clients may take a node to
MaxVersion == 5

\* retry periods of the leader election the clock runs through
MaxPeriods == 4

maxRebootingNodes == 1

\* seconds
leaderElectionLease == 90

True == "true"
False == "false"
Absent == "absent"
Nil == [configured |-> FALSE]

LabelBeforeReboot == "before-reboot"
LabelAfterReboot == "after-reboot"
AnnotationOkToReboot == "reboot-ok"
AnnotationRebootNeeded == "reboot-needed"
AnnotationRebootInProgress == "reboot-in-progress"
AnnotationRebootPaused == "reboot-paused"
PreCheckKey == "pre-check"
PostCheckKey == "post-check"

LabelKeys == {LabelBeforeReboot, LabelAfterReboot}
AnnotationKeys == {AnnotationOkToReboot, AnnotationRebootNeeded,
                   AnnotationRebootInProgress, AnnotationRebootPaused,
                   PreCheckKey, PostCheckKey}

NodeNames == <<"n1", "n2">>

Range(s) == {s[i] : i \in 1..Len(s)}

Min(a, b) == IF a < b THEN a ELSE b

\* A node as the agent leaves it when it starts up: no phase label, no
\* reboot-ok, reboot-needed and reboot-in-progress false.
FreshNode ==
    [labels |-> [k \in LabelKeys |-> Absent],
     annotations |-> [k \in AnnotationKeys |->
         IF k \in {AnnotationRebootNeeded, AnnotationRebootInProgress}
         THEN False ELSE Absent]]

(***************************************************************************)
(* Selectors and predicates                                                *)
(***************************************************************************)
\* variant: reboot-ok is not required
justRebootedSelectorIgnoresOk(a) ==
    /\ a[AnnotationRebootNeeded] = False
    /\ a[AnnotationRebootInProgress] = False

justRebootedSelector(a) ==
    /\ a[AnnotationOkToReboot] = True
    /\ a[AnnotationRebootNeeded] = False
    /\ a[AnnotationRebootInProgress] = False

wantsRebootSelector(a) ==
    /\ a[AnnotationRebootNeeded] = True
    /\ a[AnnotationRebootPaused] # True
    /\ a[AnnotationOkToReboot] # True
    /\ a[AnnotationRebootInProgress] # True

stillRebootingSelector(a) ==
    /\ a[AnnotationOkToReboot] = True
    /\ a[AnnotationRebootNeeded] = True

beforeRebootReq(l) == l[LabelBeforeReboot] \in {True}

afterRebootReq(l) == l[LabelAfterReboot] \in {True}

notBeforeRebootReq(l) == l[LabelBeforeReboot] \notin {True}

notAfterRebootReq(l) == l[LabelAfterReboot] \notin {True}

\* variant: an annotation counts as soon as it is present
hasAllAnnotationsPresent(node, annotations) ==
    \A i \in 1..Len(annotations) : node.annotations[annotations[i]] # Absent

hasAllAnnotations(node, annotations) ==
    \A i \in 1..Len(annotations) : node.annotations[annotations[i]] = True

\* k8sutil.FilterNodesByAnnotation / FilterNodesByRequirement: the names of
\* list, in order, whose node is among the matching ones.
FilterNodes(list, matching) == SelectSeq(list, LAMBDA n : n \in matching)

\* variant: an annotation that is "true" is left in place
DeleteAnnotationsKeepsTrue(a, annotations) ==
    [k \in AnnotationKeys |->
       IF k \in Range(annotations) /\ a[k] # True THEN Absent ELSE a[k]]

\* delete(node.Annotations, annotation) for every annotation of the list
DeleteAnnotations(a, annotations) ==
    [k \in AnnotationKeys |-> IF k \in Range(annotations) THEN Absent ELSE a[k]]

(***************************************************************************)
(* Admission policy                                                        *)
(***************************************************************************)
\* timeutil.Periodic.Previous: the most recent occurrence starting at or
\* before ref.
Previous(w, ref) ==
    LET start == ref - ((ref - w.start) % w.period)
    IN  [Start |-> start, End |-> start + w.length]

insideRebootWindow(w, t) ==
    IF w = Nil THEN TRUE
    ELSE LET period == Previous(w, t) IN ~(period.End > t)

\* variant: nodes in their pre-check are not counted as rebooting
remainingRebootingCapacityNoPreCheck(list, nl) ==
    LET rebootingNodes ==
            FilterNodes(list,
                {n \in DOMAIN nl : stillRebootingSelector(nl[n].annotations)})
        afterRebootNodes ==
            FilterNodes(list,
                {n \in DOMAIN nl : afterRebootReq(nl[n].labels)})
    IN  maxRebootingNodes - Len(rebootingNodes \o afterRebootNodes)

\* length of the concatenation of the three filtered lists
remainingRebootingCapacity(list, nl) ==
    LET rebootingNodes ==
            FilterNodes(list,
                {n \in DOMAIN nl : stillRebootingSelector(nl[n].annotations)})
        beforeRebootNodes ==
            FilterNodes(list,
                {n \in DOMAIN nl : beforeRebootReq(nl[n].labels)})
        afterRebootNodes ==
            FilterNodes(list,
                {n \in DOMAIN nl : afterRebootReq(nl[n].labels)})
    IN  maxRebootingNodes
          - Len(rebootingNodes \o beforeRebootNodes \o afterRebootNodes)

nodesRequiringReboot(list, nl) ==
    LET rebootable ==
            FilterNodes(list,
                {n \in DOMAIN nl : wantsRebootSelector(nl[n].annotations)})
    IN  FilterNodes(rebootable,
                {n \in DOMAIN nl : notBeforeRebootReq(nl[n].labels)})

\* the chosen nodes, for a capacity that make() accepts (>= 0)
rebootableNodes(list, nl) ==
    LET remainingCapacity == remainingRebootingCapacity(list, nl)
        requiring == nodesRequiringReboot(list, nl)
    IN  SubSeq(requiring, 1, Min(remainingCapacity, Len(requiring)))

(***************************************************************************)
(* Transforms handed to UpdateNodeRetry                                    *)
(***************************************************************************)
\* variant: the label goes, the stale pre-check annotations stay
cleanupTransformKeepsAnnotations(node, annotations) ==
    IF /\ node.labels[LabelBeforeReboot] # Absent
       /\ ~wantsRebootSelector(node.annotations)
    THEN [node EXCEPT !.labels[LabelBeforeReboot] = Absent]
    ELSE node

cleanupTransform(node, annotations) ==
    IF /\ node.labels[LabelBeforeReboot] # Absent
       /\ ~wantsRebootSelector(node.annotations)
    THEN [labels |-> [node.labels EXCEPT ![LabelBeforeReboot] = Absent],
          annotations |-> DeleteAnnotations(node.annotations, annotations)]
    ELSE node

\* variant: the label and annotations go, reboot-ok is not granted
checkBeforeTransformNoGrant(node, annotations) ==
    [labels |-> [node.labels EXCEPT ![LabelBeforeReboot] = Absent],
     annotations |-> DeleteAnnotations(node.annotations, annotations)]

checkBeforeTransform(node, annotations) ==
    [labels |-> [node.labels EXCEPT ![LabelBeforeReboot] = Absent],
     annotations |-> [DeleteAnnotations(node.annotations, annotations)
                        EXCEPT ![AnnotationOkToReboot] = True]]

\* variant: reboot-ok is left at "true"
checkAfterTransformKeepsOk(node, annotations) ==
    [labels |-> [node.labels EXCEPT ![LabelAfterReboot] = Absent],
     annotations |-> DeleteAnnotations(node.annotations, annotations)]

checkAfterTransform(node, annotations) ==
    [labels |-> [node.labels EXCEPT ![LabelAfterReboot] = Absent],
     annotations |-> [DeleteAnnotations(node.annotations, annotations)
                        EXCEPT ![AnnotationOkToReboot] = False]]

\* variant: labelling a node also removes its reboot-paused annotation
markClearsPaused(node, label, annotations) ==
    [labels |-> [node.labels EXCEPT ![label] = True],
     annotations |-> [DeleteAnnotations(node.annotations, annotations)
                        EXCEPT ![AnnotationRebootPaused] = Absent]]

mark(node, label, annotations) ==
    [labels |-> [node.labels EXCEPT ![label] = True],
     annotations |-> DeleteAnnotations(node.annotations, annotations)]

(***************************************************************************)
(* k8sutil: RetryOnConflict over wait.ExponentialBackoff, and the closure  *)
(* UpdateNodeRetry hands to it (Get, transform, Update)                    *)
(***************************************************************************)
\* DefaultRetry.Steps
DefaultRetrySteps == 5

\* errors are pairs <<kind, number of the invocation of fn that returned it>>
NoErr == <<"nil", 0>>
ErrWaitTimeout == <<"timed out waiting for the condition", 0>>
Conflict(i) == <<"conflict", i>>
OtherErr(i) == <<"error", i>>

\* errors.IsConflict
IsConflict(err) == err[1] = "conflict"

\* variant: a conflict ends the loop as if fn had succeeded
ConflictConditionStopsOnConflict(err) ==
    IF err = NoErr \/ IsConflict(err) THEN <<TRUE, NoErr>>
    ELSE <<FALSE, err>>

\* the condition function RetryOnConflict hands to wait.ExponentialBackoff:
\* <<done, error>> for what fn returned
ConflictCondition(err) ==
    IF err = NoErr THEN <<TRUE, NoErr>>
    ELSE IF IsConflict(err) THEN <<FALSE, NoErr>>
    ELSE <<FALSE, err>>

\* variant: the timeout of the backoff is returned as it is
RetryOnConflictReturnKeepsTimeout(err, lastConflictErr) == err

\* what RetryOnConflict returns for the error err of wait.ExponentialBackoff
RetryOnConflictReturn(err, lastConflictErr) ==
    IF err = ErrWaitTimeout THEN lastConflictErr ELSE err

\* the update functions of the five phases, by the phase that passes them
RetryTransforms ==
    {"cleanupState", "checkBeforeReboot", "checkAfterReboot",
     "markBeforeReboot", "markAfterReboot"}

Apply(f, node) ==
    CASE f = "cleanupState" -> cleanupTransform(node, beforeRebootAnnotations)
      [] f = "checkBeforeReboot" ->
             checkBeforeTransform(node, beforeRebootAnnotations)
      [] f = "checkAfterReboot" ->
             checkAfterTransform(node, afterRebootAnnotations)
      [] f = "markBeforeReboot" ->
             mark(node, LabelBeforeReboot, beforeRebootAnnotations)
      [] f = "markAfterReboot" ->
             mark(node, LabelAfterReboot, afterRebootAnnotations)

\* nothing read yet
NoRead == [node |-> FreshNode, version |-> 0 - 1]

\* UpdateNodeRetry(nc, name, f) has been called and fn not yet invoked
RetryCall(f) ==
    [pc |-> "get", f |-> f, steps |-> DefaultRetrySteps, version |-> 0,
     inhand |-> NoRead, lastConflictErr |-> NoErr, err |-> NoErr,
     outcomes |-> <<>>, persisted |-> 0]

\* no call of UpdateNodeRetry is followed step by step
NoRetry == [RetryCall("none") EXCEPT !.pc = "off"]

\* the closure RetryOnError hands to wait.ExponentialBackoff, for what fn
\* returned: <<done, error, lastErr of RetryOnError>>. The closure declares
\* a lastErr of its own (lastErr := fn()), the one of RetryOnError is left
\* as it was.
ErrorCondition(err, lastErr) == <<err = NoErr, NoErr, lastErr>>

\* what RetryOnError returns for the error err of wait.ExponentialBackoff
RetryOnErrorReturn(err, lastErr) ==
    IF err = ErrWaitTimeout THEN lastErr ELSE err

\* RetryOnError(backoff, fn) has been called with backoff.Steps = steps and
\* fn not yet invoked; lastErr is nil (var lastErr error)
AttemptCall(steps) ==
    [pc |-> "fn", steps |-> steps, lastErr |-> NoErr, err |-> NoErr,
     outcomes |-> <<>>]

\* no call of RetryOnError is followed step by step
NoAttempt == [AttemptCall(1) EXCEPT !.pc = "off"]

(***************************************************************************)
(* Leader election: the configuration Run hands to leaderelection.RunOrDie *)
(* and the lease rules the callbacks depend on                             *)
(***************************************************************************)
\* variant: the renew deadline is twice the lease duration
RenewDeadlineBeyondLease == leaderElectionLease * 2

RenewDeadline == (leaderElectionLease * 2) \div 3

RetryPeriod == leaderElectionLease \div 3

\* the clock counts retry periods
Seconds(t) == t * RetryPeriod

\* a candidate may take the lock: nobody holds it, or the holder has not
\* renewed it for LeaseDuration
LeaseExpired(lock, clock) ==
    \/ lock.holder = "none"
    \/ Seconds(clock) >= Seconds(lock.renew) + leaderElectionLease

\* a leader that has not renewed for RenewDeadline gives up
RenewDeadlinePassed(lock, clock) ==
    Seconds(clock) >= Seconds(lock.renew) + RenewDeadline

\* variant: Run goes on whether or not the callback has sent
ReceivedAlways(waitLeading) == TRUE

\* <-waitLeading: something has been sent on the channel
Received(waitLeading) == waitLeading

\* the controller as the passes of process() take it: leading, in the loop
Leads ==
    [autoLabelContainerLinux |-> FALSE, manageAgent |-> FALSE,
     waitLeading |-> TRUE, started |-> TRUE, leading |-> TRUE,
     invoked |-> {}, clock |-> 0,
     lock |-> [holder |-> "self", renew |-> 0], other |-> "electing",
     stop |-> FALSE, err |-> "nil"]

(***************************************************************************)
(* Agent daemonset: the version annotation is text, a sequence of          *)
(* characters, read with semver.Parse and compared with Version.LT of      *)
(* github.com/blang/semver                                                 *)
(***************************************************************************)
\* the characters of version identifiers, in byte order
Alphabet == <<"-", "0", "1", "2", "3", "4", "5", "6", "7", "8", "9",
              "b", "c", "r", "v", "x">>

Numbers == {"0", "1", "2", "3", "4", "5", "6", "7", "8", "9"}

\* strings.IndexRune: the first position of c in s, 0 when there is none
IndexRune(s, c) ==
    IF \E i \in 1..Len(s) : s[i] = c
    THEN CHOOSE i \in 1..Len(s) : s[i] = c /\ \A j \in 1..(i - 1) : s[j] # c
    ELSE 0

\* strings.Split(s, c)
RECURSIVE Split(_, _)
Split(s, c) ==
    LET i == IndexRune(s, c)
    IN  IF i = 0 THEN <<s>>
        ELSE <<SubSeq(s, 1, i - 1)>> \o Split(SubSeq(s, i + 1, Len(s)), c)

\* strings.SplitN(s, c, n): at most n parts, the last one is the remainder
RECURSIVE SplitN(_, _, _)
SplitN(s, c, n) ==
    LET i == IndexRune(s, c)
    IN  IF n = 1 \/ i = 0 THEN <<s>>
        ELSE <<SubSeq(s, 1, i - 1)>> \o SplitN(SubSeq(s, i + 1, Len(s)), c, n - 1)

containsOnly(s, set) == \A i \in 1..Len(s) : s[i] \in set

hasLeadingZeroes(s) == Len(s) > 1 /\ s[1] = "0"

Ord(c) == CHOOSE i \in 1..Len(Alphabet) : Alphabet[i] = c

\* strconv.ParseUint(s, 10, 64) of a text of digits
RECURSIVE ParseUint(_)
ParseUint(s) ==
    IF Len(s) = 0 THEN 0
    ELSE ParseUint(SubSeq(s, 1, Len(s) - 1)) * 10 + (Ord(s[Len(s)]) - Ord("0"))

\* a major, minor or patch number is read without error
NumericOK(s) == Len(s) > 0 /\ containsOnly(s, Numbers) /\ ~hasLeadingZeroes(s)

\* semver.NewPRVersion reads the identifier without error
PRVersionOK(s) ==
    /\ Len(s) > 0
    /\ IF containsOnly(s, Numbers) THEN ~hasLeadingZeroes(s)
       ELSE containsOnly(s, Range(Alphabet))

\* a build identifier is read without error
BuildOK(s) == Len(s) > 0 /\ containsOnly(s, Range(Alphabet))

NoVersion == [Major |-> 0, Minor |-> 0, Patch |-> 0, Pre |-> <<>>]

\* semver.Parse: err is TRUE when the text is not a semantic version; build
\* metadata is checked and plays no part in comparisons
semverParse(s) ==
    LET parts  == SplitN(s, ".", 3)
        plus   == IndexRune(parts[3], "+")
        build  == IF plus = 0 THEN <<>>
                  ELSE Split(SubSeq(parts[3], plus + 1, Len(parts[3])), ".")
        nobld  == IF plus = 0 THEN parts[3] ELSE SubSeq(parts[3], 1, plus - 1)
        minus  == IndexRune(nobld, "-")
        pre    == IF minus = 0 THEN <<>>
                  ELSE Split(SubSeq(nobld, minus + 1, Len(nobld)), ".")
        patch  == IF minus = 0 THEN nobld ELSE SubSeq(nobld, 1, minus - 1)
    IN  IF Len(s) = 0 \/ Len(parts) # 3 THEN [err |-> TRUE, ver |-> NoVersion]
        ELSE IF /\ NumericOK(parts[1])
                /\ NumericOK(parts[2])
                /\ NumericOK(patch)
                /\ \A i \in 1..Len(pre) : PRVersionOK(pre[i])
                /\ \A i \in 1..Len(build) : BuildOK(build[i])
        THEN [err |-> FALSE,
              ver |-> [Major |-> ParseUint(parts[1]),
                       Minor |-> ParseUint(parts[2]),
                       Patch |-> ParseUint(patch),
                       Pre   |-> pre]]
        ELSE [err |-> TRUE, ver |-> NoVersion]

CompareInt(a, b) == IF a = b THEN 0 ELSE IF a > b THEN 1 ELSE -1

\* strings.Compare of two identifiers: byte order, a prefix comes first
RECURSIVE CompareText(_, _)
CompareText(a, b) ==
    IF Len(a) = 0 /\ Len(b) = 0 THEN 0
    ELSE IF Len(a) = 0 THEN -1
    ELSE IF Len(b) = 0 THEN 1
    ELSE IF a[1] # b[1] THEN CompareInt(Ord(a[1]), Ord(b[1]))
    ELSE CompareText(Tail(a), Tail(b))

\* PRVersion.Compare: numbers by value, a number before any text
PRCompare(a, b) ==
    LET an == containsOnly(a, Numbers)
        bn == containsOnly(b, Numbers)
    IN  IF an /\ bn THEN CompareInt(ParseUint(a), ParseUint(b))
        ELSE IF an THEN -1
        ELSE IF bn THEN 1
        ELSE CompareText(a, b)

RECURSIVE PreCompare(_, _)
PreCompare(v, o) ==
    IF Len(v) = 0 /\ Len(o) = 0 THEN 0
    ELSE IF Len(v) = 0 THEN -1
    ELSE IF Len(o) = 0 THEN 1
    ELSE IF PRCompare(v[1], o[1]) # 0 THEN PRCompare(v[1], o[1])
    ELSE PreCompare(Tail(v), Tail(o))

\* Version.Compare: a version with a pre-release comes before the same
\* version without one
Compare(v, o) ==
    IF v.Major # o.Major THEN CompareInt(v.Major, o.Major)
    ELSE IF v.Minor # o.Minor THEN CompareInt(v.Minor, o.Minor)
    ELSE IF v.Patch # o.Patch THEN CompareInt(v.Patch, o.Patch)
    ELSE IF Len(v.Pre) = 0 /\ Len(o.Pre) = 0 THEN 0
    ELSE IF Len(v.Pre) = 0 THEN 1
    ELSE IF Len(o.Pre) = 0 THEN -1
    ELSE PreCompare(v.Pre, o.Pre)

LT(v, o) == Compare(v, o) = -1

\* the texts a version annotation is drawn from: 0.9.0, 1.0.0, 1.9.0,
\* 1.10.0, 1.9.0-rc, 1.9.0+b, 2.0.0 and, not semantic versions, v1.9.0,
\* 1.9, the empty text, 01.9.0, 1.9.0- and 1.9.x
VersionTexts ==
    {<<"0", ".", "9", ".", "0">>,
     <<"1", ".", "0", ".", "0">>,
     <<"1", ".", "9", ".", "0">>,
     <<"1", ".", "1", "0", ".", "0">>,
     <<"1", ".", "9", ".", "0", "-", "r", "c">>,
     <<"1", ".", "9", ".", "0", "+", "b">>,
     <<"2", ".", "0", ".", "0">>,
     <<"v", "1", ".", "9", ".", "0">>,
     <<"1", ".", "9">>,
     <<>>,
     <<"0", "1", ".", "9", ".", "0">>,
     <<"1", ".", "9", ".", "0", "-">>,
     <<"1", ".", "9", ".", "x">>}

\* version.Version of the controller: 1.0.0, 1.9.0 or 1.9.0-rc
ControllerVersions ==
    {<<"1", ".", "0", ".", "0">>,
     <<"1", ".", "9", ".", "0">>,
     <<"1", ".", "9", ".", "0", "-", "r", "c">>}

daemonsetName == "flatcar-linux-update-agent-ds"

\* the names a daemonset of the namespace may have, in list order
DaemonsetNames == <<daemonsetName, "another-ds">>

NoAnnotation == [present |-> FALSE, text |-> <<>>]

NoDaemonset == [exists |-> FALSE, managed |-> FALSE, annotation |-> NoAnnotation]

\* the daemonsets a namespace may hold under one name
Daemonsets ==
    {NoDaemonset} \cup
    {[exists |-> TRUE, managed |-> m, annotation |-> a] :
        m \in BOOLEAN,
        a \in {NoAnnotation} \cup
              {[present |-> TRUE, text |-> t] : t \in VersionTexts}}

\* DaemonSets(namespace).List with the selector of managedByOperatorLabels:
\* the names of the daemonsets that carry the labels
RECURSIVE ListManaged(_, _)
ListManaged(ds, names) ==
    IF Len(names) = 0 THEN <<>>
    ELSE (IF ds[Head(names)].exists /\ ds[Head(names)].managed
          THEN <<Head(names)>> ELSE <<>>) \o ListManaged(ds, Tail(names))

\* variant: the created daemonset does not carry managedByOperatorLabels
agentDaemonsetSpecUnlabelled(version) ==
    [exists |-> TRUE, managed |-> FALSE,
     annotation |-> [present |-> TRUE, text |-> version]]

\* agentDaemonsetSpec: the labels are managedByOperatorLabels, the version
\* annotation is version.Version
agentDaemonsetSpec(version) ==
    [exists |-> TRUE, managed |-> TRUE,
     annotation |-> [present |-> TRUE, text |-> version]]

ErrNil == "nil"

\* runDaemonsetUpdate is called with the namespace holding ds
EnsureCall(version, ds) ==
    [pc |-> "List", version |-> version, daemonsets |-> ds, before |-> ds,
     items |-> <<>>, writes |-> <<>>, err |-> ErrNil]

\* no call of runDaemonsetUpdate is modelled
NoEnsure ==
    [pc |-> "none", version |-> <<>>,
     daemonsets |-> [n \in Range(DaemonsetNames) |-> NoDaemonset],
     before |-> [n \in Range(DaemonsetNames) |-> NoDaemonset],
     items |-> <<>>, writes |-> <<>>, err |-> ErrNil]

(***************************************************************************)
(* Initial states                                                          *)
(***************************************************************************)
NoSnap == <<>>

\* timeutil.ParsePeriodic(RebootWindowStart, RebootWindowLength): a window
\* that opens at 1 for 1 time unit, every 3 time units.
Windows == {[start |-> 1, length |-> 1, period |-> 3]}

\* Config.BeforeRebootAnnotations and Config.AfterRebootAnnotations
NoGates == {<<<<>>, <<>>>>}
OneGate == {<<<<PreCheckKey>>, <<>>>>, <<<<>>, <<PostCheckKey>>>>}

InitWith(orders, gates, windows, tr) ==
    /\ order \in orders
    /\ nodes = [n \in Range(order) |-> FreshNode]
    /\ \E g \in gates :
         /\ beforeRebootAnnotations = g[1]
         /\ afterRebootAnnotations = g[2]
    /\ rebootWindow \in windows
    /\ now = 0
    /\ pc = "idle"
    /\ todo = <<>>
    /\ passResult = "none"
    /\ track = tr
    /\ snap = NoSnap
    /\ streak = 0
    /\ retry = NoRetry
    /\ run = Leads
    /\ ensure = NoEnsure
    /\ attempt = NoAttempt

Init == InitWith({NodeNames}, NoGates \cup OneGate, {Nil}, FALSE)

InitWindow == InitWith({NodeNames}, NoGates, Windows, FALSE)

InitQuiet ==
    InitWith({SubSeq(NodeNames, 1, 1), NodeNames}, NoGates \cup OneGate,
             {Nil} \cup Windows, TRUE)

\* one call of UpdateNodeRetry on the only node, for each update function
\* and for a node with or without the before-reboot label and reboot-ok
InitRetry ==
    /\ order = SubSeq(NodeNames, 1, 1)
    /\ \E l \in {Absent, True} : \E a \in {Absent, True} :
         nodes = [n \in Range(order) |->
                    [FreshNode EXCEPT !.labels[LabelBeforeReboot] = l,
                                      !.annotations[AnnotationOkToReboot] = a]]
    /\ beforeRebootAnnotations = <<>>
    /\ afterRebootAnnotations = <<>>
    /\ rebootWindow = Nil
    /\ now = 0
    /\ pc = "idle"
    /\ todo = <<>>
    /\ passResult = "none"
    /\ track = FALSE
    /\ snap = NoSnap
    /\ streak = 0
    /\ retry \in {RetryCall(f) : f \in RetryTransforms}
    /\ run = Leads
    /\ ensure = NoEnsure
    /\ attempt = NoAttempt

\* Run is called: one node, nobody holds the lock, a second instance of the
\* controller contends for it
InitRun ==
    /\ order = SubSeq(NodeNames, 1, 1)
    /\ nodes = [n \in Range(order) |-> FreshNode]
    /\ beforeRebootAnnotations = <<>>
    /\ afterRebootAnnotations = <<>>
    /\ rebootWindow = Nil
    /\ now = 0
    /\ pc = "Run"
    /\ todo = <<>>
    /\ passResult = "none"
    /\ track = FALSE
    /\ snap = NoSnap
    /\ streak = 0
    /\ retry = NoRetry
    /\ ensure = NoEnsure
    /\ attempt = NoAttempt
    /\ \E a \in BOOLEAN : \E m \in BOOLEAN :
         run = [autoLabelContainerLinux |-> a, manageAgent |-> m,
                waitLeading |-> FALSE, started |-> FALSE, leading |-> FALSE,
                invoked |-> {}, clock |-> 0,
                lock |-> [holder |-> "none", renew |-> 0],
                other |-> "electing", stop |-> FALSE, err |-> "nil"]

(***************************************************************************)
(* Writers other than the controller                                       *)
(***************************************************************************)
MayWrite == IF track THEN pc = "idle" ELSE pc # "panicked"

Write(n, k, v) ==
    /\ MayWrite
    /\ nodes[n].annotations[k] # v
    /\ nodes' = [nodes EXCEPT ![n].annotations[k] = v]
    /\ snap' = NoSnap
    /\ streak' = 0
    /\ UNCHANGED <<config, side, rest, now, pc, todo, passResult>>

\* update-agent: owns reboot-needed and reboot-in-progress of its node
AgentWrite ==
    \E n \in Range(order) :
      \E k \in {AnnotationRebootNeeded, AnnotationRebootInProgress} :
        \E v \in {True, False} : Write(n, k, v)

\* human operator: sets or removes reboot-paused
OperatorWrite ==
    \E n \in Range(order) :
      \E v \in {True, Absent} : Write(n, AnnotationRebootPaused, v)

\* health gates: set the configured pre- and post-check annotations
GateWrite ==
    \E n \in Range(order) :
      \E k \in Range(beforeRebootAnnotations) \cup Range(afterRebootAnnotations) :
        \E v \in {True, False} : Write(n, k, v)

\* the clock the reboot window is tested against
Tick ==
    /\ rebootWindow # Nil
    /\ MayWrite
    /\ now < MaxTime
    /\ now' = now + 1
    /\ snap' = NoSnap
    /\ streak' = 0
    /\ UNCHANGED <<config, side, rest, nodes, pc, todo, passResult>>

(***************************************************************************)
(* Kontroller.process()                                                    *)
(***************************************************************************)
\* process() returns: result is "ok" after phase 5, "error" on the first
\* failed List or update.
Return(result) ==
    /\ pc' = "idle"
    /\ todo' = <<>>
    /\ passResult' = result
    /\ streak' = IF track /\ result = "ok" THEN Min(streak + 1, 2) ELSE 0
    /\ snap' = IF track /\ result = "ok" THEN snap ELSE NoSnap

\* k8sutil.UpdateNodeRetry(nc, name, f): the node is re-read, f is applied
\* to the fresh object nodes[name] and the result, updated, is persisted.
UpdateNodeRetry(name, updated) ==
    nodes' = [nodes EXCEPT ![name] = updated]

\* the loop of a phase moves on to its next node
Advance ==
    /\ todo' = Tail(todo)
    /\ UNCHANGED <<pc, passResult, snap, streak>>

\* variant: the loop of wait.Until never finds the stop channel closed
StopClosedNever == FALSE

\* wait.Until, before it calls process(): case <-stopCh
StopClosed == run.stop

\* wait.Until calls process(): the pass starts with the List of cleanupState
cleanupStateList ==
    /\ pc = "idle"
    /\ ~StopClosed
    /\ pc' = "cleanupState"
    /\ todo' = order
    /\ passResult' = "running"
    /\ snap' = IF track THEN nodes ELSE NoSnap
    /\ streak' = Min(streak, 1)
    /\ UNCHANGED <<config, side, rest, nodes, now>>

cleanupStateUpdate ==
    /\ pc = "cleanupState"
    /\ todo # <<>>
    /\ UpdateNodeRetry(Head(todo),
           cleanupTransform(nodes[Head(todo)], beforeRebootAnnotations))
    /\ Advance
    /\ UNCHANGED <<config, side, rest, now>>

checkAfterRebootList ==
    /\ pc = "cleanupState"
    /\ todo = <<>>
    /\ pc' = "checkAfterReboot"
    /\ LET postRebootNodes ==
               FilterNodes(order,
                {n \in DOMAIN nodes : afterRebootReq(nodes[n].labels)})
       IN  todo' = FilterNodes(postRebootNodes,
                {n \in DOMAIN nodes : hasAllAnnotations(nodes[n], afterRebootAnnotations)})
    /\ UNCHANGED <<config, side, rest, nodes, now, passResult, snap, streak>>

checkAfterRebootUpdate ==
    /\ pc = "checkAfterReboot"
    /\ todo # <<>>
    /\ UpdateNodeRetry(Head(todo),
           checkAfterTransform(nodes[Head(todo)], afterRebootAnnotations))
    /\ Advance
    /\ UNCHANGED <<config, side, rest, now>>

markAfterRebootList ==
    /\ pc = "checkAfterReboot"
    /\ todo = <<>>
    /\ pc' = "markAfterReboot"
    /\ LET justRebootedNodes ==
               FilterNodes(order,
                {n \in DOMAIN nodes : justRebootedSelector(nodes[n].annotations)})
       IN  todo' = FilterNodes(justRebootedNodes,
                {n \in DOMAIN nodes : notAfterRebootReq(nodes[n].labels)})
    /\ UNCHANGED <<config, side, rest, nodes, now, passResult, snap, streak>>

markAfterRebootUpdate ==
    /\ pc = "markAfterReboot"
    /\ todo # <<>>
    /\ UpdateNodeRetry(Head(todo),
           mark(nodes[Head(todo)], LabelAfterReboot, afterRebootAnnotations))
    /\ Advance
    /\ UNCHANGED <<config, side, rest, now>>

checkBeforeRebootList ==
    /\ pc = "markAfterReboot"
    /\ todo = <<>>
    /\ pc' = "checkBeforeReboot"
    /\ LET preRebootNodes ==
               FilterNodes(order,
                {n \in DOMAIN nodes : beforeRebootReq(nodes[n].labels)})
       IN  todo' = FilterNodes(preRebootNodes,
                {n \in DOMAIN nodes : hasAllAnnotations(nodes[n], beforeRebootAnnotations)})
    /\ UNCHANGED <<config, side, rest, nodes, now, passResult, snap, streak>>

\* variant: reboot-ok is granted and the before-reboot label stays
checkBeforeRebootUpdateKeepsLabel ==
    /\ pc = "checkBeforeReboot"
    /\ todo # <<>>
    /\ UpdateNodeRetry(Head(todo),
           [nodes[Head(todo)] EXCEPT !.annotations[AnnotationOkToReboot] = True])
    /\ Advance
    /\ UNCHANGED <<config, side, rest, now>>

checkBeforeRebootUpdate ==
    /\ pc = "checkBeforeReboot"
    /\ todo # <<>>
    /\ UpdateNodeRetry(Head(todo),
           checkBeforeTransform(nodes[Head(todo)], beforeRebootAnnotations))
    /\ Advance
    /\ UNCHANGED <<config, side, rest, now>>

\* List, the window test and rebootableNodes; make() panics on a negative
\* capacity, and process() returns when there is nothing to label.
markBeforeRebootList ==
    /\ pc = "checkBeforeReboot"
    /\ todo = <<>>
    /\ IF ~insideRebootWindow(rebootWindow, now)
       THEN Return("ok")
       ELSE IF remainingRebootingCapacity(order, nodes) < 0
       THEN /\ pc' = "panicked"
            /\ todo' = <<>>
            /\ passResult' = "error"
            /\ snap' = NoSnap
            /\ streak' = 0
       ELSE IF rebootableNodes(order, nodes) = <<>>
       THEN Return("ok")
       ELSE /\ pc' = "markBeforeReboot"
            /\ todo' = rebootableNodes(order, nodes)
            /\ UNCHANGED <<passResult, snap, streak>>
    /\ UNCHANGED <<config, side, rest, nodes, now>>

markBeforeRebootUpdate ==
    /\ pc = "markBeforeReboot"
    /\ todo # <<>>
    /\ UpdateNodeRetry(Head(todo),
           mark(nodes[Head(todo)], LabelBeforeReboot, beforeRebootAnnotations))
    /\ IF Tail(todo) = <<>> THEN Return("ok") ELSE Advance
    /\ UNCHANGED <<config, side, rest, now>>

\* variant: a failed List is logged and the phase lists again
ListErrorListsAgain ==
    /\ pc \in {"cleanupState", "checkAfterReboot", "markAfterReboot",
               "checkBeforeReboot"}
    /\ todo = <<>>
    /\ passResult' = "error"
    /\ UNCHANGED <<config, side, rest, nodes, now, pc, todo, snap, streak>>

\* nc.List fails: the phase returns the error and process() returns
ListError ==
    /\ \/ pc = "idle"
       \/ /\ pc \in {"cleanupState", "checkAfterReboot", "markAfterReboot",
                     "checkBeforeReboot"}
          /\ todo = <<>>
    /\ Return("error")
    /\ UNCHANGED <<config, side, rest, nodes, now>>

\* variant: a failed update is logged and the loop goes on to the next node
UpdateErrorSkipsNode ==
    /\ pc \in {"cleanupState", "checkAfterReboot", "markAfterReboot",
               "checkBeforeReboot", "markBeforeReboot"}
    /\ todo # <<>>
    /\ todo' = Tail(todo)
    /\ passResult' = "error"
    /\ UNCHANGED <<config, side, rest, nodes, now, pc, snap, streak>>

\* UpdateNodeRetry fails: nothing is persisted, process() returns
UpdateError ==
    /\ pc \in {"cleanupState", "checkAfterReboot", "markAfterReboot",
               "checkBeforeReboot", "markBeforeReboot"}
    /\ todo # <<>>
    /\ Return("error")
    /\ UNCHANGED <<config, side, rest, nodes, now>>

Process ==
    \/ cleanupStateList
    \/ cleanupStateUpdate
    \/ checkAfterRebootList
    \/ checkAfterRebootUpdate
    \/ markAfterRebootList
    \/ markAfterRebootUpdate
    \/ checkBeforeRebootList
    \/ checkBeforeRebootUpdate
    \/ markBeforeRebootList
    \/ markBeforeRebootUpdate
    \/ ListError
    \/ UpdateError

Next ==
    \/ Process
    \/ AgentWrite
    \/ OperatorWrite
    \/ GateWrite

\* no check annotations are configured: there is nothing for a gate to set
NextWindow ==
    \/ Process
    \/ AgentWrite
    \/ OperatorWrite
    \/ Tick

NextQuiet ==
    \/ Next
    \/ Tick

(***************************************************************************)
(* k8sutil.UpdateNodeRetry step by step: fn is Get, the update function,   *)
(* Update; the store refuses an Update whose resourceVersion is not the    *)
(* stored one.                                                             *)
(***************************************************************************)
RetryNode == order[1]

\* fn has returned err: the condition function, the loop of
\* wait.ExponentialBackoff and, when the loop ends, RetryOnConflict's return
fnReturns(r, err) ==
    LET cond == ConflictCondition(err)
        last == IF cond = <<FALSE, NoErr>> THEN err ELSE r.lastConflictErr
        seen == [r EXCEPT !.outcomes = Append(@, err),
                          !.lastConflictErr = last]
    IN  IF cond[2] # NoErr \/ cond[1]
        THEN [seen EXCEPT !.pc = "returned",
                          !.err = RetryOnConflictReturn(cond[2], last)]
        ELSE IF r.steps = 1
        THEN [seen EXCEPT !.pc = "returned", !.steps = 0,
                          !.err = RetryOnConflictReturn(ErrWaitTimeout, last)]
        ELSE [seen EXCEPT !.pc = "get", !.steps = @ - 1]

\* nc.Get(name) returns the stored node
Get ==
    /\ retry.pc = "get"
    /\ retry' = [retry EXCEPT !.pc = "update",
                              !.inhand = [node |-> nodes[RetryNode],
                                          version |-> retry.version]]
    /\ UNCHANGED <<config, side, run, nodes, now, pc, todo, passResult, snap, streak>>

\* nc.Get(name) fails: fn returns the error
GetError ==
    /\ retry.pc = "get"
    /\ retry' = fnReturns(retry, OtherErr(Len(retry.outcomes) + 1))
    /\ UNCHANGED <<config, side, run, nodes, now, pc, todo, passResult, snap, streak>>

\* f(n); nc.Update(n): persisted when n carries the stored resourceVersion,
\* a conflict error otherwise
Update ==
    /\ retry.pc = "update"
    /\ IF retry.inhand.version = retry.version
       THEN /\ nodes' = [nodes EXCEPT
                           ![RetryNode] = Apply(retry.f, retry.inhand.node)]
            /\ retry' = [fnReturns(retry, NoErr) EXCEPT
                           !.version = @ + 1, !.persisted = @ + 1]
       ELSE /\ nodes' = nodes
            /\ retry' = fnReturns(retry, Conflict(Len(retry.outcomes) + 1))
    /\ UNCHANGED <<config, side, run, now, pc, todo, passResult, snap, streak>>

\* nc.Update(n) fails with another error than a conflict
UpdateOtherError ==
    /\ retry.pc = "update"
    /\ retry' = fnReturns(retry, OtherErr(Len(retry.outcomes) + 1))
    /\ UNCHANGED <<config, side, run, nodes, now, pc, todo, passResult, snap, streak>>

\* another client (the node's agent) persists a version of the node
ConcurrentWrite ==
    /\ retry.pc \in {"get", "update"}
    /\ retry.version < MaxVersion
    /\ \E k \in {AnnotationRebootNeeded, AnnotationRebootInProgress} :
         \E v \in {True, False} :
           /\ nodes[RetryNode].annotations[k] # v
           /\ nodes' = [nodes EXCEPT ![RetryNode].annotations[k] = v]
    /\ retry' = [retry EXCEPT !.version = @ + 1]
    /\ UNCHANGED <<config, side, run, now, pc, todo, passResult, snap, streak>>

NextRetry ==
    \/ Get
    \/ GetError
    \/ Update
    \/ UpdateOtherError
    \/ ConcurrentWrite

(***************************************************************************)
(* Kontroller.Run: withLeaderElection, the start-up tasks and the loop,    *)
(* with the lease of the lock and a second instance contending for it      *)
(***************************************************************************)
\* the process is running
Alive == pc \notin {"returned", "exited", "panicked"}

\* os.Hostname() fails: withLeaderElection and Run return the error
HostnameError ==
    /\ pc = "Run"
    /\ pc' = "returned"
    /\ run' = [run EXCEPT !.err = "os.Hostname"]
    /\ UNCHANGED <<config, side, retry, nodes, now, todo, passResult, snap, streak>>

\* the election goroutine is started and Run blocks on <-waitLeading
withLeaderElection ==
    /\ pc = "Run"
    /\ pc' = "waitLeading"
    /\ UNCHANGED <<config, side, retry, run, nodes, now, todo, passResult, snap, streak>>

\* the lock is acquired: the callback sends on waitLeading
OnStartedLeading ==
    /\ pc = "waitLeading"
    /\ ~run.leading
    /\ LeaseExpired(run.lock, run.clock)
    /\ run' = [run EXCEPT !.lock = [holder |-> "self", renew |-> run.clock],
                          !.leading = TRUE, !.started = TRUE,
                          !.waitLeading = TRUE]
    /\ UNCHANGED <<config, side, retry, nodes, now, pc, todo, passResult, snap, streak>>

\* withLeaderElection returns nil; Run starts the legacy labeler if asked to
legacyLabelerStart ==
    /\ pc = "waitLeading"
    /\ Received(run.waitLeading)
    /\ pc' = "runDaemonsetUpdate"
    /\ run' = [run EXCEPT !.invoked =
                 IF run.autoLabelContainerLinux
                 THEN @ \cup {"legacyLabeler"} ELSE @]
    /\ UNCHANGED <<config, side, retry, nodes, now, todo, passResult, snap, streak>>

\* the agent daemonset is ensured if asked to, and the loop of process()
\* starts
runDaemonsetUpdate ==
    /\ pc = "runDaemonsetUpdate"
    /\ pc' = "idle"
    /\ run' = [run EXCEPT !.invoked =
                 IF run.manageAgent
                 THEN @ \cup {"runDaemonsetUpdate"} ELSE @]
    /\ UNCHANGED <<config, side, retry, nodes, now, todo, passResult, snap, streak>>

\* variant: the error is logged and Run goes on to the loop of process()
runDaemonsetUpdateErrorLogged ==
    /\ pc = "runDaemonsetUpdate"
    /\ run.manageAgent
    /\ pc' = "idle"
    /\ run' = [run EXCEPT !.invoked = @ \cup {"runDaemonsetUpdate"},
                          !.err = "runDaemonsetUpdate"]
    /\ UNCHANGED <<config, side, retry, nodes, now, todo, passResult, snap, streak>>

\* runDaemonsetUpdate fails: Run returns the error
runDaemonsetUpdateError ==
    /\ pc = "runDaemonsetUpdate"
    /\ run.manageAgent
    /\ pc' = "returned"
    /\ run' = [run EXCEPT !.invoked = @ \cup {"runDaemonsetUpdate"},
                          !.leading = FALSE,
                          !.err = "runDaemonsetUpdate"]
    /\ UNCHANGED <<config, side, retry, nodes, now, todo, passResult, snap, streak>>

\* wait.Until finds the stop channel closed between two passes: Run returns
\* nil
UntilReturns ==
    /\ pc = "idle"
    /\ StopClosed
    /\ pc' = "returned"
    /\ run' = [run EXCEPT !.leading = FALSE]
    /\ UNCHANGED <<config, side, retry, nodes, now, todo, passResult, snap, streak>>

\* the caller of Run closes the stop channel
CloseStop ==
    /\ Alive
    /\ ~run.stop
    /\ run' = [run EXCEPT !.stop = TRUE]
    /\ UNCHANGED <<config, side, retry, nodes, now, pc, todo, passResult, snap, streak>>

\* the leader renews its lease
RenewLease ==
    /\ Alive
    /\ run.leading
    /\ run.lock.holder = "self"
    /\ run.lock.renew < run.clock
    /\ ~RenewDeadlinePassed(run.lock, run.clock)
    /\ run' = [run EXCEPT !.lock.renew = run.clock]
    /\ UNCHANGED <<config, side, retry, nodes, now, pc, todo, passResult, snap, streak>>

\* the lease could not be renewed in time: klog.Fatalf ends the process
OnStoppedLeading ==
    /\ Alive
    /\ run.leading
    /\ RenewDeadlinePassed(run.lock, run.clock)
    /\ pc' = "exited"
    /\ run' = [run EXCEPT !.leading = FALSE]
    /\ UNCHANGED <<config, side, retry, nodes, now, todo, passResult, snap, streak>>

\* the second instance acquires the lock
OtherAcquires ==
    /\ run.other = "electing"
    /\ LeaseExpired(run.lock, run.clock)
    /\ run' = [run EXCEPT !.lock = [holder |-> "other", renew |-> run.clock],
                          !.other = "leading"]
    /\ UNCHANGED <<config, side, retry, nodes, now, pc, todo, passResult, snap, streak>>

\* the second instance renews its lease
OtherRenews ==
    /\ run.other = "leading"
    /\ run.lock.renew < run.clock
    /\ ~RenewDeadlinePassed(run.lock, run.clock)
    /\ run' = [run EXCEPT !.lock.renew = run.clock]
    /\ UNCHANGED <<config, side, retry, nodes, now, pc, todo, passResult, snap, streak>>

\* the second instance could not renew in time: it exits and its supervisor
\* starts it again
OtherStops ==
    /\ run.other = "leading"
    /\ RenewDeadlinePassed(run.lock, run.clock)
    /\ run' = [run EXCEPT !.other = "electing"]
    /\ UNCHANGED <<config, side, retry, nodes, now, pc, todo, passResult, snap, streak>>

\* a retry period passes; a leader whose renew deadline has passed gives up
\* first
LeaseTick ==
    /\ run.clock < MaxPeriods
    /\ ~(Alive /\ run.leading /\ RenewDeadlinePassed(run.lock, run.clock))
    /\ ~(run.other = "leading" /\ RenewDeadlinePassed(run.lock, run.clock))
    /\ run' = [run EXCEPT !.clock = @ + 1]
    /\ UNCHANGED <<config, side, retry, nodes, now, pc, todo, passResult, snap, streak>>

NextRun ==
    \/ HostnameError
    \/ withLeaderElection
    \/ OnStartedLeading
    \/ legacyLabelerStart
    \/ runDaemonsetUpdate
    \/ runDaemonsetUpdateError
    \/ RenewLease
    \/ OnStoppedLeading
    \/ OtherAcquires
    \/ OtherRenews
    \/ OtherStops
    \/ LeaseTick
    \/ UntilReturns
    \/ CloseStop
    \/ Process
    \/ AgentWrite

(***************************************************************************)
(* runDaemonsetUpdate, one action per store call and per return            *)
(***************************************************************************)
\* the namespace holds any daemonsets; the controller has any of its versions
InitEnsure ==
    /\ order = SubSeq(NodeNames, 1, 1)
    /\ nodes = [n \in Range(order) |-> FreshNode]
    /\ beforeRebootAnnotations = <<>>
    /\ afterRebootAnnotations = <<>>
    /\ rebootWindow = Nil
    /\ now = 0
    /\ pc = "runDaemonsetUpdate"
    /\ todo = <<>>
    /\ passResult = "none"
    /\ track = FALSE
    /\ snap = NoSnap
    /\ streak = 0
    /\ retry = NoRetry
    /\ run = Leads
    /\ attempt = NoAttempt
    /\ \E v \in ControllerVersions :
         \E ds \in [Range(DaemonsetNames) -> Daemonsets] :
           ensure = EnsureCall(v, ds)

EnsureReturn(err) == [ensure EXCEPT !.pc = "returned", !.err = err]

EnsureOnly ==
    UNCHANGED <<config, rest, attempt, nodes, now, pc, todo, passResult,
                snap, streak>>

\* the only listed daemonset
agentDS == ensure.daemonsets[ensure.items[1]]

dsSemver == semverParse(agentDS.annotation.text)

versionSemver == semverParse(ensure.version).ver

DaemonSetsList ==
    /\ ensure.pc = "List"
    /\ ensure' = [ensure EXCEPT !.pc = "listed",
                    !.items = ListManaged(ensure.daemonsets, DaemonsetNames)]
    /\ EnsureOnly

DaemonSetsListError ==
    /\ ensure.pc = "List"
    /\ ensure' = EnsureReturn("listing DaemonSets")
    /\ EnsureOnly

\* Create of a daemonset named daemonsetName, at either call site
createAgentDamonset ==
    /\ \/ ensure.pc = "listed" /\ Len(ensure.items) = 0
       \/ ensure.pc = "deleted"
    /\ ~ensure.daemonsets[daemonsetName].exists
    /\ ensure' = [EnsureReturn(ErrNil) EXCEPT
                    !.daemonsets[daemonsetName] = agentDaemonsetSpec(ensure.version),
                    !.writes = Append(ensure.writes, <<"create", daemonsetName>>)]
    /\ EnsureOnly

\* Create fails: the name is taken, or the store returns an error
createAgentDamonsetError ==
    /\ \/ ensure.pc = "listed" /\ Len(ensure.items) = 0
       \/ ensure.pc = "deleted"
    /\ ensure' = EnsureReturn("creating agent DaemonSet")
    /\ EnsureOnly

TooManyDaemonsets ==
    /\ ensure.pc = "listed"
    /\ Len(ensure.items) > 1
    /\ ensure' = EnsureReturn("only expected one daemonset managed by operator")
    /\ EnsureOnly

NoVersionAnnotation ==
    /\ ensure.pc = "listed"
    /\ Len(ensure.items) = 1
    /\ ~agentDS.annotation.present
    /\ ensure' = EnsureReturn("managed daemonset did not have a version annotation")
    /\ EnsureOnly

NotValidSemver ==
    /\ ensure.pc = "listed"
    /\ Len(ensure.items) = 1
    /\ agentDS.annotation.present
    /\ dsSemver.err
    /\ ensure' = EnsureReturn("agent daemonset had version annotation, but it was not valid semver")
    /\ EnsureOnly

TooOld ==
    /\ ensure.pc = "listed"
    /\ Len(ensure.items) = 1
    /\ agentDS.annotation.present
    /\ ~dsSemver.err
    /\ LT(dsSemver.ver, versionSemver)

DaemonSetsDelete ==
    /\ TooOld
    /\ ensure' = [ensure EXCEPT
                    !.pc = "deleted",
                    !.daemonsets[ensure.items[1]] = NoDaemonset,
                    !.writes = Append(ensure.writes, <<"delete", ensure.items[1]>>)]
    /\ EnsureOnly

DaemonSetsDeleteError ==
    /\ TooOld
    /\ ensure' = EnsureReturn("deleting old DaemonSet")
    /\ EnsureOnly

\* the daemonset is not older than the controller: return nil
NotTooOld ==
    /\ ensure.pc = "listed"
    /\ Len(ensure.items) = 1
    /\ agentDS.annotation.present
    /\ ~dsSemver.err
    /\ ~LT(dsSemver.ver, versionSemver)
    /\ ensure' = EnsureReturn(ErrNil)
    /\ EnsureOnly

NextEnsure ==
    \/ DaemonSetsList
    \/ DaemonSetsListError
    \/ createAgentDamonset
    \/ createAgentDamonsetError
    \/ TooManyDaemonsets
    \/ NoVersionAnnotation
    \/ NotValidSemver
    \/ DaemonSetsDelete
    \/ DaemonSetsDeleteError
    \/ NotTooOld

(***************************************************************************)
(* k8sutil.RetryOnError step by step: one action for each way fn returns   *)
(***************************************************************************)
\* RetryOnError is called with a backoff of 1 to DefaultRetry.Steps steps
InitAttempt ==
    /\ order = SubSeq(NodeNames, 1, 1)
    /\ nodes = [n \in Range(order) |-> FreshNode]
    /\ beforeRebootAnnotations = <<>>
    /\ afterRebootAnnotations = <<>>
    /\ rebootWindow = Nil
    /\ now = 0
    /\ pc = "idle"
    /\ todo = <<>>
    /\ passResult = "none"
    /\ track = FALSE
    /\ snap = NoSnap
    /\ streak = 0
    /\ retry = NoRetry
    /\ run = Leads
    /\ ensure = NoEnsure
    /\ attempt \in {AttemptCall(steps) : steps \in 1..DefaultRetrySteps}

\* fn has returned err: the closure, the loop of wait.ExponentialBackoff
\* and, when the loop ends, RetryOnError's return
fnReturned(a, err) ==
    LET cond == ErrorCondition(err, a.lastErr)
        seen == [a EXCEPT !.outcomes = Append(@, err), !.lastErr = cond[3]]
    IN  IF cond[2] # NoErr \/ cond[1]
        THEN [seen EXCEPT !.pc = "returned",
                          !.err = RetryOnErrorReturn(cond[2], cond[3])]
        ELSE IF a.steps = 1
        THEN [seen EXCEPT !.pc = "returned", !.steps = 0,
                          !.err = RetryOnErrorReturn(ErrWaitTimeout, cond[3])]
        ELSE [seen EXCEPT !.pc = "fn", !.steps = @ - 1]

AttemptOnly ==
    UNCHANGED <<config, rest, ensure, nodes, now, pc, todo, passResult,
                snap, streak>>

fnSucceeds ==
    /\ attempt.pc = "fn"
    /\ attempt' = fnReturned(attempt, NoErr)
    /\ AttemptOnly

fnFails ==
    /\ attempt.pc = "fn"
    /\ \E err \in {Conflict(Len(attempt.outcomes) + 1),
                    OtherErr(Len(attempt.outcomes) + 1)} :
         attempt' = fnReturned(attempt, err)
    /\ AttemptOnly

NextAttempt ==
    \/ fnSucceeds
    \/ fnFails

Spec == Init /\ [][Next]_vars

SpecWindow == InitWindow /\ [][NextWindow]_vars

SpecQuiet == InitQuiet /\ [][NextQuiet]_vars

SpecRetry == InitRetry /\ [][NextRetry]_vars

SpecRun == InitRun /\ [][NextRun]_vars

\* a pass under way goes on, and the loop of wait.Until does not sleep for
\* ever
SpecRunLive == SpecRun /\ WF_vars(Process) /\ WF_vars(UntilReturns)

SpecEnsure == InitEnsure /\ [][NextEnsure]_vars

SpecAttempt == InitAttempt /\ [][NextAttempt]_vars

TypeOK ==
    /\ pc \in {"idle", "cleanupState", "checkAfterReboot", "markAfterReboot",
               "checkBeforeReboot", "markBeforeReboot", "panicked",
               "Run", "waitLeading", "runDaemonsetUpdate", "returned",
               "exited"}
    /\ passResult \in {"none", "running", "ok", "error"}
    /\ now \in 0..MaxTime
    /\ streak \in 0..2

(***************************************************************************)
(* Vocabulary of the properties: the phases of section 3 of the            *)
(* specification, written over a node object.                              *)
(***************************************************************************)
Ann(node, k) == node.annotations[k]

HasPreLabel(node) == node.labels[LabelBeforeReboot] = "true"

HasPostLabel(node) == node.labels[LabelAfterReboot] = "true"

WantsReboot(node) ==
    /\ Ann(node, AnnotationRebootNeeded) = "true"
    /\ Ann(node, AnnotationRebootPaused) # "true"
    /\ Ann(node, AnnotationOkToReboot) # "true"
    /\ Ann(node, AnnotationRebootInProgress) # "true"

StillRebooting(node) ==
    /\ Ann(node, AnnotationOkToReboot) = "true"
    /\ Ann(node, AnnotationRebootNeeded) = "true"

JustRebooted(node) ==
    /\ Ann(node, AnnotationOkToReboot) = "true"
    /\ Ann(node, AnnotationRebootNeeded) = "false"
    /\ Ann(node, AnnotationRebootInProgress) = "false"

InFlight(node) == StillRebooting(node) \/ HasPreLabel(node) \/ HasPostLabel(node)

InFlightNodes(nl) == {n \in DOMAIN nl : InFlight(nl[n])}

AllTrue(node, keys) == \A k \in Range(keys) : Ann(node, k) = "true"

AllDeleted(node, keys) == \A k \in Range(keys) : Ann(node, k) = "absent"

\* the start of the most recent window occurrence at or before t
MostRecentStart(w, t) ==
    CHOOSE st \in (t - w.period + 1)..t : (st - w.start) % w.period = 0

WindowOpenAt(w, t) == w = Nil \/ MostRecentStart(w, t) + w.length > t

\* a step of the controller that persists an update of node n
Updates(n) ==
    todo # <<>> /\ Head(todo) = n /\ todo' # todo /\ passResult' # "error"

\* the node objects a pass started from, once it has returned without
\* error and nothing has been written since
PassDone == pc = "idle" /\ snap # NoSnap

\* a pass of process() has just returned without error
PassCompletes == pc # "idle" /\ pc' = "idle" /\ passResult' = "ok"

(***************************************************************************)
(* C1. After every pass of process() that completes without error, at most *)
(* maxRebootingNodes distinct nodes are in flight (stillRebooting, or      *)
(* labelled before-reboot, or labelled after-reboot), whatever the agents  *)
(* write to reboot-needed and reboot-in-progress between and inside        *)
(* passes.                                                                 *)
(***************************************************************************)
C1_BoundedConcurrency ==
    [][PassCompletes =>
         Cardinality(InFlightNodes(nodes')) <= maxRebootingNodes]_vars

(***************************************************************************)
(* C2. No node ever carries both the before-reboot=true label and the      *)
(* after-reboot=true label.                                                *)
(***************************************************************************)
C2_LabelsExclusive ==
    \A n \in Range(order) : ~(HasPreLabel(nodes[n]) /\ HasPostLabel(nodes[n]))

\* one node is in its post-check while another is in its pre-check
C2_Witness ==
    \E n, m \in Range(order) : HasPostLabel(nodes[n]) /\ HasPreLabel(nodes[m])

(***************************************************************************)
(* C3. With a reboot window configured, insideRebootWindow is true exactly *)
(* when the most recent window occurrence starting at or before now ends   *)
(* strictly after now, and markBeforeReboot selects no node for labelling  *)
(* when now is outside the window; without a window it is always true.     *)
(***************************************************************************)
C3_RebootWindowGating ==
    [][(pc = "checkBeforeReboot" /\ todo = <<>> /\ passResult' # "error")
         => /\ insideRebootWindow(rebootWindow, now)
                 <=> WindowOpenAt(rebootWindow, now)
            /\ ~WindowOpenAt(rebootWindow, now) => pc' # "markBeforeReboot"]_vars

(***************************************************************************)
(* C4. The controller never persists a node version in which               *)
(* before-reboot=true is newly added while the node's reboot-paused        *)
(* annotation is "true".                                                   *)
(***************************************************************************)
C4_PauseBlocksAdmission ==
    [][\A n \in Range(order) :
         (~HasPreLabel(nodes[n]) /\ HasPreLabel(nodes'[n]))
           => Ann(nodes'[n], AnnotationRebootPaused) # "true"]_vars

(***************************************************************************)
(* C5. A node that carries before-reboot=true and no longer satisfies      *)
(* wantsReboot when a pass starts has, when that pass has completed, lost  *)
(* the label and every configured pre-check annotation, kept its reboot-ok *)
(* and is not in flight; cleanupState leaves a labelled node that still    *)
(* satisfies wantsReboot unchanged.                                        *)
(***************************************************************************)
C5_CleanupCancelledPreCheck ==
    /\ [](PassDone =>
            \A n \in Range(order) :
              (HasPreLabel(snap[n]) /\ ~WantsReboot(snap[n]))
                => /\ nodes[n].labels[LabelBeforeReboot] = "absent"
                   /\ AllDeleted(nodes[n], beforeRebootAnnotations)
                   /\ Ann(nodes[n], AnnotationOkToReboot)
                        = Ann(snap[n], AnnotationOkToReboot)
                   /\ n \notin InFlightNodes(nodes))
    /\ [][\A n \in Range(order) :
            (pc = "cleanupState" /\ Updates(n)
               /\ HasPreLabel(nodes[n]) /\ WantsReboot(nodes[n]))
              => nodes'[n] = nodes[n]]_vars

\* a pass has cleaned a paused node whose pre-check annotation was set
C5_Witness ==
    /\ PassDone
    /\ \E n \in Range(order) :
         /\ HasPreLabel(snap[n])
         /\ Ann(snap[n], AnnotationRebootPaused) = "true"
         /\ Ann(snap[n], PreCheckKey) = "false"
         /\ PreCheckKey \in Range(beforeRebootAnnotations)
         /\ ~HasPreLabel(nodes[n])

C7_FinishPostCheck ==
    [][/\ (pc = "cleanupState" /\ pc' = "checkAfterReboot")
            => todo' = SelectSeq(order, LAMBDA n :
                          /\ HasPostLabel(nodes[n])
                          /\ AllTrue(nodes[n], afterRebootAnnotations))
       /\ \A n \in Range(order) :
            (pc = "checkAfterReboot" /\ Updates(n))
              => /\ nodes'[n].labels[LabelAfterReboot] = "absent"
                 /\ AllDeleted(nodes'[n], afterRebootAnnotations)
                 /\ Ann(nodes'[n], AnnotationOkToReboot) = "false"
       /\ (pc = "checkAfterReboot" /\ pc' # pc /\ passResult' # "error")
            => todo = <<>>]_vars

\* the post-check of a node with a configured gate has just been finished
C7_Witness ==
    /\ pc = "checkAfterReboot"
    /\ todo = <<>>
    /\ PostCheckKey \in Range(afterRebootAnnotations)
    /\ \E n \in Range(order) :
         /\ Ann(nodes[n], AnnotationOkToReboot) = "false"
         /\ Ann(nodes[n], PostCheckKey) = "absent"
         /\ ~HasPostLabel(nodes[n])

(***************************************************************************)
(* Passes seen from outside: PassDone holds when a pass has returned       *)
(* without error, snap is what it started from and nodes what it left.     *)
(***************************************************************************)
NoLabels(node) == ~HasPreLabel(node) /\ ~HasPostLabel(node)

Idle(node) ==
    /\ NoLabels(node)
    /\ ~WantsReboot(node)
    /\ ~StillRebooting(node)
    /\ ~JustRebooted(node)

Candidates(nl) ==
    SelectSeq(order, LAMBDA n : WantsReboot(nl[n]) /\ ~HasPreLabel(nl[n]))

Capacity(nl) ==
    IF Cardinality(InFlightNodes(nl)) >= maxRebootingNodes THEN 0
    ELSE maxRebootingNodes - Cardinality(InFlightNodes(nl))

(***************************************************************************)
(* C8. Full cycle of a single node with no pre/post-check annotations      *)
(* configured and an open window: a pass labels a node that wants a reboot *)
(* before-reboot; the next pass removes the label and sets reboot-ok=true; *)
(* once the agent has set reboot-needed=false and reboot-in-progress=false *)
(* a pass labels it after-reboot; the next pass removes that label and     *)
(* sets reboot-ok=false, leaving the node Idle.                            *)
(***************************************************************************)
C8_FullCycle ==
    (/\ PassDone
     /\ Len(order) = 1
     /\ beforeRebootAnnotations = <<>>
     /\ afterRebootAnnotations = <<>>
     /\ WindowOpenAt(rebootWindow, now))
      => LET s == snap[order[1]]
             e == nodes[order[1]]
         IN  /\ (WantsReboot(s) /\ NoLabels(s))
                  => e = [s EXCEPT !.labels[LabelBeforeReboot] = "true"]
             /\ (WantsReboot(s) /\ HasPreLabel(s))
                  => e = [s EXCEPT !.labels[LabelBeforeReboot] = "absent",
                                   !.annotations[AnnotationOkToReboot] = "true"]
             /\ (JustRebooted(s) /\ NoLabels(s))
                  => e = [s EXCEPT !.labels[LabelAfterReboot] = "true"]
             /\ (JustRebooted(s) /\ HasPostLabel(s))
                  => /\ e = [s EXCEPT !.labels[LabelAfterReboot] = "absent",
                                      !.annotations[AnnotationOkToReboot] = "false"]
                     /\ Idle(e)

(***************************************************************************)
(* C9. In a pass inside the window markBeforeReboot selects exactly the    *)
(* first min(cap, |candidates|) candidates in list order.  With two        *)
(* candidates A (first) and B and nothing in flight a pass labels only A;  *)
(* a pass leaves B unchanged while A stays in flight; the pass after A has *)
(* finished (no labels, reboot-ok=false) labels B.                         *)
(***************************************************************************)
C9_AdmissionInListOrder ==
    /\ [][(/\ pc = "checkBeforeReboot"
           /\ todo = <<>>
           /\ passResult' # "error"
           /\ WindowOpenAt(rebootWindow, now))
            => (IF pc' = "markBeforeReboot" THEN todo' ELSE <<>>)
                 = SubSeq(Candidates(nodes), 1,
                          Min(Capacity(nodes), Len(Candidates(nodes))))]_vars
    /\ []((PassDone /\ Len(order) = 2 /\ WindowOpenAt(rebootWindow, now))
            => LET A == order[1]
                   B == order[2]
               IN  /\ (/\ InFlightNodes(snap) = {}
                       /\ WantsReboot(snap[A])
                       /\ WantsReboot(snap[B]))
                        => HasPreLabel(nodes[A]) /\ nodes[B] = snap[B]
                   /\ (/\ WantsReboot(snap[B])
                       /\ ~HasPreLabel(snap[B])
                       /\ InFlight(snap[A])
                       /\ InFlight(nodes[A]))
                        => nodes[B] = snap[B]
                   /\ (/\ WantsReboot(snap[B])
                       /\ NoLabels(snap[B])
                       /\ NoLabels(snap[A])
                       /\ Ann(snap[A], AnnotationOkToReboot) = "false"
                       /\ Ann(snap[A], AnnotationRebootNeeded) = "false")
                        => HasPreLabel(nodes[B]))

(***************************************************************************)
(* C10. Two passes of process() back-to-back, with no write in between,    *)
(* leave after the second pass exactly the node objects that the first     *)
(* pass left.                                                              *)
(***************************************************************************)
C10_Idempotent == (PassDone /\ streak = 2) => nodes = snap

\* no labelled node has all its configured check annotations "true"
NoCheckSatisfied(nl) ==
    \A n \in DOMAIN nl :
      /\ ~(HasPreLabel(nl[n]) /\ AllTrue(nl[n], beforeRebootAnnotations))
      /\ ~(HasPostLabel(nl[n]) /\ AllTrue(nl[n], afterRebootAnnotations))

\* C10 as amended: the second pass changes nothing when the first pass left
\* no labelled node whose configured check annotations are all "true".
C10_IdempotentOnceSettled ==
    (PassDone /\ streak = 2 /\ NoCheckSatisfied(snap)) => nodes = snap

\* a second pass in a row has run over a node waiting for its pre-check
\* gate while another node wants a reboot
C10_Witness ==
    /\ PassDone
    /\ streak = 2
    /\ NoCheckSatisfied(snap)
    /\ \E n, m \in Range(order) :
         /\ HasPreLabel(snap[n])
         /\ WantsReboot(snap[m])
         /\ ~HasPreLabel(snap[m])

(***************************************************************************)
(* Steps of the controller that persist a node: every update moves the     *)
(* loop of its phase on, and no other writer touches todo.                 *)
(***************************************************************************)
ControllerUpdate == todo' # todo /\ nodes' # nodes

AgentKeys == {AnnotationRebootNeeded, AnnotationRebootInProgress}

ConfiguredKeys ==
    Range(beforeRebootAnnotations) \cup Range(afterRebootAnnotations)

(***************************************************************************)
(* C11. No update of a controller phase changes a node's reboot-needed,    *)
(* reboot-in-progress or reboot-paused annotation: what an update changes  *)
(* is among reboot-ok, the before-reboot and after-reboot labels and the   *)
(* configured pre- and post-check annotation keys.                         *)
(***************************************************************************)
C11_FieldOwnership ==
    [][ControllerUpdate =>
         \A n \in Range(order) : \A k \in AnnotationKeys :
           /\ k \in AgentKeys \cup {AnnotationRebootPaused}
                => Ann(nodes'[n], k) = Ann(nodes[n], k)
           /\ Ann(nodes'[n], k) # Ann(nodes[n], k)
                => k \in {AnnotationOkToReboot} \cup ConfiguredKeys]_vars

\* a paused node that has rebooted was labelled after-reboot, its agent's
\* and operator's annotations as they were
C11_Witness ==
    \E n \in Range(order) :
      /\ HasPostLabel(nodes[n])
      /\ Ann(nodes[n], AnnotationRebootPaused) = "true"
      /\ Ann(nodes[n], AnnotationRebootNeeded) = "false"
      /\ Ann(nodes[n], AnnotationRebootInProgress) = "false"

(***************************************************************************)
(* One call of RetryOnConflict(DefaultRetry, fn) seen from outside:        *)
(* retry.outcomes is what the invocations of fn returned, in order.        *)
(***************************************************************************)
Returned == retry.pc = "returned"

Invocations == Len(retry.outcomes)

LastOutcome == retry.outcomes[Invocations]

AllConflicts(k) == \A i \in 1..k : retry.outcomes[i] = <<"conflict", i>>

(***************************************************************************)
(* C12. RetryOnConflict with DefaultRetry invokes fn at most 5 times; it   *)
(* goes on only after a conflict error; it returns nil as soon as an       *)
(* invocation returns nil, a non-conflict error as soon as an invocation   *)
(* returns it, and after 5 conflict errors the last of them, not the       *)
(* timeout error of the backoff.                                           *)
(***************************************************************************)
C12_ConflictRetryOutcomes ==
    /\ Invocations <= 5
    /\ retry.pc \in {"get", "update"}
         => Invocations < 5 /\ AllConflicts(Invocations)
    /\ Returned
         => /\ Invocations >= 1
            /\ AllConflicts(Invocations - 1)
            /\ LastOutcome[1] = "nil" => retry.err = <<"nil", 0>>
            /\ LastOutcome[1] = "error" => retry.err = LastOutcome
            /\ LastOutcome[1] = "conflict"
                 => Invocations = 5 /\ retry.err = <<"conflict", 5>>

\* five invocations have met a conflict and the fifth conflict is returned
C12_Witness ==
    /\ Returned
    /\ Invocations = 5
    /\ AllConflicts(5)
    /\ retry.err = <<"conflict", 5>>

(***************************************************************************)
(* C13. An invocation that fails persists nothing; the invocation that     *)
(* succeeds persists the stored node with the update function applied to   *)
(* it once; a call that returns nil has persisted exactly one version and  *)
(* a call that returns an error none.                                      *)
(***************************************************************************)
C13_ExactlyOnce ==
    /\ [][Invocations' = Invocations + 1
            => IF retry'.outcomes[Invocations'] = <<"nil", 0>>
               THEN nodes' = [nodes EXCEPT
                                ![RetryNode] = Apply(retry.f, nodes[RetryNode])]
               ELSE nodes' = nodes]_vars
    /\ [](Returned
            => retry.persisted = (IF retry.err = <<"nil", 0>> THEN 1 ELSE 0))

\* three conflicts, then the update is persisted: the node carries both the
\* agent's write and the label of mark()
C13_Witness ==
    /\ Returned
    /\ retry.err = <<"nil", 0>>
    /\ Invocations = 4
    /\ AllConflicts(3)
    /\ retry.persisted = 1
    /\ retry.f = "markBeforeReboot"
    /\ HasPreLabel(nodes[RetryNode])
    /\ Ann(nodes[RetryNode], AnnotationRebootNeeded) = "true"

(***************************************************************************)
(* Run seen from outside: run.started records that OnStartedLeading has    *)
(* fired, run.invoked the start-up tasks that have been invoked.           *)
(***************************************************************************)
PassPhases ==
    {"cleanupState", "checkAfterReboot", "markAfterReboot",
     "checkBeforeReboot", "markBeforeReboot"}

\* the loop of process() is running or a pass is under way
InLoop == pc \in PassPhases \cup {"idle"}

C15_LeaderLossIsFatal ==
    /\ [][(run.leading /\ ~run'.leading) => pc' \in {"exited", "returned"}]_vars
    /\ [][pc = "exited"
            => /\ pc' = "exited"
               /\ todo' = todo
               /\ passResult' = passResult
               /\ run'.invoked = run.invoked
               /\ \A n \in Range(order) :
                    /\ nodes'[n].labels = nodes[n].labels
                    /\ \A k \in AnnotationKeys \ AgentKeys :
                         Ann(nodes'[n], k) = Ann(nodes[n], k)]_vars
    /\ [](~(Alive /\ run.leading /\ run.other = "leading"))

\* leadership was lost in the middle of a node's reboot cycle and the second
\* instance has taken the lock
C15_Witness ==
    /\ pc = "exited"
    /\ run.other = "leading"
    /\ run.lock.holder = "other"
    /\ \E n \in Range(order) : HasPreLabel(nodes[n])

(***************************************************************************)
(* Failures inside a pass: Fails is the step on which a List or an update  *)
(* of the pass returns an error.                                           *)
(***************************************************************************)
Fails == passResult # "error" /\ passResult' = "error" /\ pc' # "panicked"

PassOrder ==
    {<<"idle", "cleanupState">>, <<"cleanupState", "checkAfterReboot">>,
     <<"checkAfterReboot", "markAfterReboot">>,
     <<"markAfterReboot", "checkBeforeReboot">>,
     <<"checkBeforeReboot", "markBeforeReboot">>}

(***************************************************************************)
(* C16. When a List or a node update fails in a phase of process(), the    *)
(* pass returns on that step: no later phase runs, what the pass has       *)
(* persisted stays as it is, and the next pass starts with cleanupState    *)
(* over a fresh list of all nodes; phases are only entered in order.       *)
(***************************************************************************)
C16_AbortOnError ==
    [][/\ Fails => (pc' = "idle" /\ todo' = <<>> /\ nodes' = nodes)
       /\ (pc' # pc /\ pc' \in PassPhases) => <<pc, pc'>> \in PassOrder
       /\ (pc = "idle" /\ pc' = "cleanupState") => todo' = order]_vars

\* a pass has failed with one node in its post-check and the other in its
\* pre-check
C16_Witness ==
    /\ pc = "idle"
    /\ passResult = "error"
    /\ \E n, m \in Range(order) : HasPostLabel(nodes[n]) /\ HasPreLabel(nodes[m])

(***************************************************************************)
(* C17. A failed update of one node does not keep the controller from      *)
(* processing the other nodes in the same pass: the loop of the phase goes *)
(* on with the next node.                                                  *)
(***************************************************************************)
C17_ErrorIsolation ==
    [][(Fails /\ todo # <<>>) => (pc' = pc /\ todo' = Tail(todo))]_vars

\* C17 as amended: a failed update, like a failed List, ends the pass; the
\* nodes left in the loop are not updated before the next pass, whose
\* cleanupState visits every node again.
C17_FailedUpdateEndsPass ==
    [][/\ (Fails /\ todo # <<>> /\ Tail(todo) # <<>>)
            => (pc' = "idle" /\ todo' = <<>> /\ nodes' = nodes)
       /\ (pc = "idle" /\ todo' # todo)
            => (nodes' = nodes /\ pc' = "cleanupState" /\ todo' = order)]_vars

\* a pass has failed and left a candidate unlabelled while no node is in
\* flight
C17_Witness ==
    /\ pc = "idle"
    /\ passResult = "error"
    /\ InFlightNodes(nodes) = {}
    /\ \E n \in Range(order) : WantsReboot(nodes[n])

(***************************************************************************)
(* C18. For every node list remainingRebootingCapacity returns             *)
(* max(0, maxRebootingNodes - |inFlight|), inFlight being the set of       *)
(* distinct nodes that are stillRebooting or labelled before-reboot or     *)
(* labelled after-reboot: a node in several of these sets counts once and  *)
(* the result is never negative.                                           *)
(***************************************************************************)
C18_RemainingCapacity ==
    /\ remainingRebootingCapacity(order, nodes) = Capacity(nodes)
    /\ remainingRebootingCapacity(order, nodes) >= 0

(***************************************************************************)
(* C19. An update of checkBeforeReboot that finds, on the node it re-reads,*)
(* that the node no longer wants a reboot only deletes the before-reboot   *)
(* label and does not set reboot-ok to "true".                             *)
(***************************************************************************)
C19_NoGrantOnStaleRead ==
    [][\A n \in Range(order) :
         (pc = "checkBeforeReboot" /\ Updates(n) /\ ~WantsReboot(nodes[n]))
           => /\ ~HasPreLabel(nodes'[n])
              /\ Ann(nodes'[n], AnnotationOkToReboot)
                   = Ann(nodes[n], AnnotationOkToReboot)]_vars

C21_PostCheckExit ==
    [][\A n \in Range(order) :
         /\ (HasPostLabel(nodes[n]) /\ ~HasPostLabel(nodes'[n]))
              => /\ pc = "checkAfterReboot"
                 /\ Updates(n)
                 /\ AllTrue(nodes[n], afterRebootAnnotations)
                 /\ AllDeleted(nodes'[n], afterRebootAnnotations)
                 /\ Ann(nodes'[n], AnnotationOkToReboot) = "false"
         /\ (/\ Ann(nodes[n], AnnotationOkToReboot) # "false"
             /\ Ann(nodes'[n], AnnotationOkToReboot) = "false")
              => (HasPostLabel(nodes[n]) /\ ~HasPostLabel(nodes'[n]))]_vars

(***************************************************************************)
(* C22. The node version in which the controller adds before-reboot=true   *)
(* (after-reboot=true) carries none of the configured pre-check            *)
(* (post-check) annotations; and a node that is justRebooted without the   *)
(* after-reboot label when a pass starts carries the label when that pass  *)
(* has completed, whatever the window and the capacity.                    *)
(***************************************************************************)
C22_FreshGates ==
    /\ [][\A n \in Range(order) :
            /\ (~HasPreLabel(nodes[n]) /\ HasPreLabel(nodes'[n]))
                 => AllDeleted(nodes'[n], beforeRebootAnnotations)
            /\ (~HasPostLabel(nodes[n]) /\ HasPostLabel(nodes'[n]))
                 => AllDeleted(nodes'[n], afterRebootAnnotations)]_vars
    /\ [](PassDone =>
            \A n \in Range(order) :
              (JustRebooted(snap[n]) /\ ~HasPostLabel(snap[n]))
                => HasPostLabel(nodes[n]))

\* a pass has labelled a rebooted node after-reboot and removed the "true"
\* its post-check gate had left from an earlier cycle
C22_Witness ==
    /\ PassDone
    /\ PostCheckKey \in Range(afterRebootAnnotations)
    /\ \E n \in Range(order) :
         /\ JustRebooted(snap[n])
         /\ ~HasPostLabel(snap[n])
         /\ Ann(snap[n], PostCheckKey) = "true"
         /\ HasPostLabel(nodes[n])
         /\ Ann(nodes[n], PostCheckKey) = "absent"

(***************************************************************************)
(* C23. The phases of a pass are entered in the order cleanupState,        *)
(* checkAfterReboot, markAfterReboot, checkBeforeReboot, markBeforeReboot, *)
(* so that in a pass inside the window, when the only node in flight is    *)
(* released by cleanupState or by checkAfterReboot, a waiting candidate    *)
(* carries before-reboot=true when that same pass has completed.           *)
(***************************************************************************)
ReleasedByCleanup(node) ==
    /\ HasPreLabel(node)
    /\ ~WantsReboot(node)
    /\ ~HasPostLabel(node)
    /\ ~StillRebooting(node)

ReleasedByPostCheck(node) ==
    /\ HasPostLabel(node)
    /\ ~HasPreLabel(node)
    /\ AllTrue(node, afterRebootAnnotations)

C23_SlotFreedInSamePass ==
    /\ [][(pc' # pc /\ pc' \in PassPhases) => <<pc, pc'>> \in PassOrder]_vars
    /\ []((PassDone /\ WindowOpenAt(rebootWindow, now))
            => \A A, B \in Range(order) :
                 (/\ InFlightNodes(snap) = {A}
                  /\ ReleasedByCleanup(snap[A]) \/ ReleasedByPostCheck(snap[A])
                  /\ WantsReboot(snap[B]))
                   => \E C \in Range(order) :
                        ~HasPreLabel(snap[C]) /\ HasPreLabel(nodes[C]))

(***************************************************************************)
(* C24. runDaemonsetUpdate creates the daemonset when the namespace holds  *)
(* no managed one; returns an error without a write when it holds more     *)
(* than one, or one with no version annotation, or one whose annotation is *)
(* not a semantic version; deletes and recreates it when its version is    *)
(* strictly less than the controller's; writes nothing when its version is *)
(* greater or equal; and after every return of nil exactly one managed     *)
(* daemonset exists.                                                       *)
(***************************************************************************)
\* the texts of VersionTexts that are not semantic versions
NotSemver ==
    {<<"v", "1", ".", "9", ".", "0">>,
     <<"1", ".", "9">>,
     <<>>,
     <<"0", "1", ".", "9", ".", "0">>,
     <<"1", ".", "9", ".", "0", "-">>,
     <<"1", ".", "9", ".", "x">>}

EnsureReturned == ensure.pc = "returned" /\ ensure.err # "listing DaemonSets"

ManagedBefore == ListManaged(ensure.before, DaemonsetNames)

ManagedAfter == ListManaged(ensure.daemonsets, DaemonsetNames)

Created == <<"create", daemonsetName>>

C24_DecisionTable ==
    /\ \A t \in VersionTexts : semverParse(t).err <=> t \in NotSemver
    /\ EnsureReturned =>
         LET items   == ManagedBefore
             a       == ensure.before[items[1]].annotation
             v       == semverParse(a.text)
             ours    == semverParse(ensure.version).ver
             Deleted == <<"delete", items[1]>>
         IN  /\ Len(items) = 0 =>
                  \/ ensure.err = ErrNil /\ ensure.writes = <<Created>>
                  \/ ensure.err = "creating agent DaemonSet" /\ ensure.writes = <<>>
             /\ (Len(items) > 1 \/ (Len(items) = 1 /\ (~a.present \/ v.err))) =>
                  /\ ensure.err # ErrNil
                  /\ ensure.writes = <<>>
                  /\ ensure.daemonsets = ensure.before
             /\ (Len(items) = 1 /\ a.present /\ ~v.err /\ LT(v.ver, ours)) =>
                  \/ ensure.err = ErrNil /\ ensure.writes = <<Deleted, Created>>
                  \/ ensure.err = "deleting old DaemonSet" /\ ensure.writes = <<>>
                  \/ ensure.err = "creating agent DaemonSet" /\ ensure.writes = <<Deleted>>
             /\ (Len(items) = 1 /\ a.present /\ ~v.err /\ ~LT(v.ver, ours)) =>
                  /\ ensure.err = ErrNil
                  /\ ensure.writes = <<>>
             /\ ensure.err = ErrNil => Len(ManagedAfter) = 1

\* 1.9.0-rc is replaced by the controller's 1.9.0
C24_Witness ==
    /\ EnsureReturned
    /\ ensure.err = ErrNil
    /\ Len(ensure.writes) = 2
    /\ ensure.version = <<"1", ".", "9", ".", "0">>
    /\ Len(ManagedBefore) = 1
    /\ ensure.before[ManagedBefore[1]].annotation.text
         = <<"1", ".", "9", ".", "0", "-", "r", "c">>
    /\ ensure.daemonsets[daemonsetName] = agentDaemonsetSpec(ensure.version)

(***************************************************************************)
(* C25. An error of runDaemonsetUpdate at startup is returned and ends the *)
(* startup, but does not stop the reconcile loop: Run goes on to the loop  *)
(* of process().                                                           *)
(***************************************************************************)
EnsurerFails == run.err = "nil" /\ run'.err = "runDaemonsetUpdate"

C25_EnsurerErrorKeepsLoop == [][EnsurerFails => pc' = "idle"]_vars

(***************************************************************************)
(* C25, amended. An error of runDaemonsetUpdate at startup is returned by  *)
(* Run itself: Run ends before the loop of process() is started, so no     *)
(* pass ever runs in this process and it persists no node update.          *)
(***************************************************************************)
C25_EnsurerErrorEndsRun ==
    /\ [][EnsurerFails => (pc' = "returned" /\ passResult = "none")]_vars
    /\ [](run.err # "nil" => (pc = "returned" /\ passResult = "none"))
    /\ [][pc = "returned"
            => /\ pc' = "returned"
               /\ todo' = todo
               /\ passResult' = passResult
               /\ run'.invoked = run.invoked
               /\ \A n \in Range(order) :
                    /\ nodes'[n].labels = nodes[n].labels
                    /\ \A k \in AnnotationKeys \ AgentKeys :
                         Ann(nodes'[n], k) = Ann(nodes[n], k)]_vars

\* Run has returned the error of runDaemonsetUpdate while the node asks for
\* a reboot
C25_Witness ==
    /\ pc = "returned"
    /\ run.err = "runDaemonsetUpdate"
    /\ run.started
    /\ passResult = "none"
    /\ \E n \in Range(order) : WantsReboot(nodes[n])

(***************************************************************************)
(* C26. The passes of process() never overlap: a pass starts only when the *)
(* controller is between passes; a pass under way when the stop channel is *)
(* closed goes on to its end or its first error; once the stop channel is  *)
(* closed no pass is started, and Run returns nil (unless the process has  *)
(* ended before: leadership lost, or a pass has panicked).                 *)
(***************************************************************************)
PassStarts == pc' = "cleanupState" /\ pc # "cleanupState"

C27_LabelGrantExclusion ==
    \A n \in Range(order) :
      /\ HasPreLabel(nodes[n]) => Ann(nodes[n], AnnotationOkToReboot) # True
      /\ HasPostLabel(nodes[n]) => Ann(nodes[n], AnnotationOkToReboot) = True

\* one node is in its post-check with the permission, the other in its
\* pre-check with the permission of its last reboot cycle withdrawn
C27_Witness ==
    \E n, m \in Range(order) :
      /\ HasPostLabel(nodes[n])
      /\ Ann(nodes[n], AnnotationOkToReboot) = True
      /\ HasPreLabel(nodes[m])
      /\ Ann(nodes[m], AnnotationOkToReboot) = False

(***************************************************************************)
(* C28. Under any schedule of agent writes and controller passes           *)
(* rebootableNodes is evaluated with a remaining capacity that is not      *)
(* negative: the allocation of the slice of chosen nodes never fails, and  *)
(* the pass goes on to the end of markBeforeReboot.                        *)
(***************************************************************************)
C28_NoFailureInAdmission ==
    /\ pc # "panicked"
    /\ (pc = "checkBeforeReboot" /\ todo = <<>> /\ insideRebootWindow(rebootWindow, now))
         => remainingRebootingCapacity(order, nodes) >= 0

(***************************************************************************)
(* C29. RetryOnError returns nil only if some invocation of fn returned    *)
(* nil; when every invocation of fn within the steps of the backoff        *)
(* returns an error, RetryOnError returns the error of the last            *)
(* invocation, which is not nil.                                           *)
(***************************************************************************)
C29_RetryOnErrorResult ==
    attempt.pc = "returned" =>
      /\ attempt.err = NoErr
           => \E i \in 1..Len(attempt.outcomes) : attempt.outcomes[i] = NoErr
      /\ (\A i \in 1..Len(attempt.outcomes) : attempt.outcomes[i] # NoErr)
           => /\ attempt.err # NoErr
              /\ attempt.err = attempt.outcomes[Len(attempt.outcomes)]

====
